---- MODULE Spec2Model ----
(***************************************************************************)
(* Request pipeline of the financial manager backend: the middleware      *)
(* arrays of routes/income.js and routes/expense.js, the middlewares of   *)
(* middleware/sanitization.mjs, middleware/validation.js and              *)
(* middleware/businessValidation.js, and the create / update handlers of  *)
(* controllers/incomeController.js and controllers/expenseController.js.  *)
(*                                                                         *)
(* Field values are tokens (strings); the operators below give each token *)
(* the properties the code inspects (length, numeric value, day, match    *)
(* against a pattern).  Dates are days relative to the current day.       *)
(***************************************************************************)
EXTENDS Integers, Sequences, FiniteSets, TLC

VARIABLES users, bulk, incomes, expenses, req, body, pc, errors, resp, trace, reads

vars == <<users, bulk, incomes, expenses, req, body, pc, errors, resp, trace, reads>>

(* ------------------------------ bounds -------------------------------- *)
\* number of request slots (requests that can be in flight together)
NumSlots == 2
\* records that the handlers may add to each collection
MaxRecords == 2
\* abnormal aspects (of the principal and of the request) in one scenario
MaxBad == 2

Slots == 1..NumSlots
Users == {"u1", "u2"}

(* -------------------------- program constants ------------------------- *)
maxDailyTransactions == 50
maxTransactionAmount == 1000000
maxFutureDays == 30
maxInactiveDays == 90
freeMaxTransactions == 100
premiumMaxTransactions == 1000
freeMaxTags == 5
premiumMaxTags == 20
DescMaxLen == 200
PageDefault == 1
LimitDefault == 10
LimitMax == 100
ExpenseDescMinLen == 3
TagsMax == 10
SizeLimit == 2048
YearDays == 365
\* the range of the amount rule, 0.01 to 999999999.99, in hundredths and
\* in whole units
AmountMinHundredths == 1
AmountMaxUnits == 999999999
AmountMaxDecimals == 2

Absent == "absent"

validIncomeCategories ==
  {"salario", "ventas", "inversiones", "freelance", "bonos", "comisiones",
   "alquiler", "intereses", "dividendos", "reembolsos", "regalos", "otros"}

validExpenseCategories ==
  {"alimentacion", "transporte", "vivienda", "servicios", "salud", "educacion",
   "entretenimiento", "ropa", "tecnologia", "deudas", "ahorro", "inversion",
   "impuestos", "seguros", "mantenimiento", "otros"}

incomePaymentMethods ==
  {"efectivo", "tarjeta_debito", "tarjeta_credito", "transferencia", "cheque",
   "crypto", "otros"}

expensePaymentMethods ==
  {"efectivo", "tarjeta", "transferencia", "cheque", "crypto", "otros"}

\* the frequencies of incomeValidations.recurringFrequency, and those of the
\* Income and Expense schemas and of the expense routes
incomeFrequencies == {"diario", "semanal", "mensual", "trimestral", "anual"}
schemaFrequencies == {"semanal", "quincenal", "mensual", "trimestral", "anual"}

(* --------------------------- value tokens ----------------------------- *)
\* description tokens: "Test"; the empty string; 201 letters; a script tag;
\* a text with an ampersand
DescValues == {"Test", "", "A201", "<script>alert(1)</script>", "A&B"}

\* length of a string token
StrLen(s) ==
  CASE s = "Test" -> 4
    [] s = "" -> 0
    [] s = "A201" -> 201
    [] s = "<script>alert(1)</script>" -> 25
    [] s = "&lt;script&gt;alert(1)&lt;&#x2F;script&gt;" -> 42
    [] s = "abc" -> 3
    [] s = "A&B" -> 3
    [] s = "A&amp;B" -> 7
    [] s = "A&amp;amp;B" -> 11
    [] s = "tag" -> 3
    [] OTHER -> 1

\* amount tokens (a JSON number, or the JSON string "10.100") and their
\* value (parseFloat): whole units, hundredths, and the third decimal digit
AmountValues ==
  {"100", "1000000", "1000001", "-100", "0.01", "0.001", "999999999.99",
   "10.123", "10.100"}

Amount(a) ==
  CASE a = "100" -> [units |-> 100, hundredths |-> 0, thousandths |-> 0]
    [] a = "1000000" -> [units |-> 1000000, hundredths |-> 0, thousandths |-> 0]
    [] a = "1000001" -> [units |-> 1000001, hundredths |-> 0, thousandths |-> 0]
    [] a = "-100" -> [units |-> -100, hundredths |-> 0, thousandths |-> 0]
    [] a = "0.01" -> [units |-> 0, hundredths |-> 1, thousandths |-> 0]
    [] a = "0.001" -> [units |-> 0, hundredths |-> 0, thousandths |-> 1]
    [] a = "999999999.99" -> [units |-> 999999999, hundredths |-> 99, thousandths |-> 0]
    [] a = "10.123" -> [units |-> 10, hundredths |-> 12, thousandths |-> 3]
    [] a = "10.100" -> [units |-> 10, hundredths |-> 10, thousandths |-> 0]
    [] a = "10.1" -> [units |-> 10, hundredths |-> 10, thousandths |-> 0]
    [] OTHER -> [units |-> 0, hundredths |-> 0, thousandths |-> 0]

\* value.toString().split('.')[1].length: the digits after the point
DecimalDigits(a) ==
  CASE a \in {"0.01", "999999999.99"} -> 2
    [] a \in {"10.123", "10.100", "0.001"} -> 3
    [] a = "10.1" -> 1
    [] OTHER -> 0

\* x > n and x <= 0 for an amount x and a whole number n
AmountAbove(x, n) ==
  x.units > n \/ (x.units = n /\ (x.hundredths > 0 \/ x.thousandths > 0))
AmountNotPositive(x) ==
  x.units < 0 \/ (x.units = 0 /\ x.hundredths = 0 /\ x.thousandths = 0)

\* date tokens (date-only strings): today, 30, 31 and 400 days ahead, and
\* not a date; "now" is the time of the request, which is not midnight
DateValues == {"today", "in30d", "in31d", "in400d", "nodate"}

\* new Date(d): the instant a date string denotes; a date-only string and
\* its ISO form ("...Z") denote the same instant
Instant(d) ==
  CASE d = "todayZ" -> "today"
    [] d = "in30dZ" -> "in30d"
    [] d = "in31dZ" -> "in31d"
    [] d = "in400dZ" -> "in400d"
    [] OTHER -> d

IsDate(d) == Instant(d) \in {"today", "now", "in30d", "in31d", "in400d"}

Day(d) ==
  CASE Instant(d) = "today" -> 0
    [] Instant(d) = "now" -> 0
    [] Instant(d) = "in30d" -> 30
    [] Instant(d) = "in31d" -> 31
    [] Instant(d) = "in400d" -> 400
    [] OTHER -> 0

\* Date.prototype.toISOString
ToISOString(d) ==
  CASE d = "today" -> "todayZ"
    [] d = "in30d" -> "in30dZ"
    [] d = "in31d" -> "in31dZ"
    [] d = "in400d" -> "in400dZ"
    [] OTHER -> d

CategoryValues == {"salario", "alimentacion", "otros", "invalid"}

\* nested values of the body or the query: a leaf string or an object
Leaf(s) == [leaf |-> s]
Obj(kids) == [kids |-> kids]
IsLeaf(t) == "leaf" \in DOMAIN t

ScriptTag == "<script>alert(1)</script>"

\* extra, nested content of a body: none, or a script tag two levels down
ExtraValues == {Obj(<<>>), Obj(<<Obj(<<Leaf(ScriptTag)>>)>>)}

\* query parameters: none, one plain string (?q=abc), one script tag
QueryValues == {Obj(<<>>), Obj(<<Leaf("abc")>>), Obj(<<Leaf(ScriptTag)>>)}

TagsValues == {<<>>, [i \in 1..6 |-> "tag"], [i \in 1..11 |-> "tag"]}

PaymentValues == {"efectivo", Absent}

\* isRecurring: not sent, or the JSON booleans; recurringFrequency
RecurringValues == {Absent, "true", "false"}
FrequencyValues == {Absent, "mensual"}

\* the user field a body may carry: none, or the id of the other principal
BodyUserValues == {Absent, "u2"}

\* the token a request carries in its Authorization header
TokenValues == {"valid", "none", "malformed", "expired"}

\* jwt.verify(token, secret): the payload, or the error it throws
Verify(token) ==
  CASE token = "valid" -> "payload"
    [] token = "malformed" -> "JsonWebTokenError"
    [] token = "expired" -> "TokenExpiredError"
    [] OTHER -> "none"

\* the :id of a request: 24 hex digits, or any other string
IdForms == {"hex24", "other"}

\* isMongoId, and the cast of _id that a query runs
IsMongoId(form) == form = "hex24"

\* the page and limit parameters of a list request
PageValues == {Absent, "0", "2"}
LimitValues == {Absent, "50", "200"}

\* parseInt on the parameters of the model
ParseInt(v) ==
  CASE v = "0" -> 0 [] v = "2" -> 2 [] v = "50" -> 50 [] v = "200" -> 200
    [] OTHER -> 0 - 1

(* ------------------------- sanitization.mjs --------------------------- *)
\* dangerousPatterns: the tokens that one of the six patterns matches
dangerousPatterns(s) == s = ScriptTag

\* checkForInjection: any string at any depth matches a pattern
RECURSIVE checkForInjection(_)
checkForInjection(t) ==
  IF IsLeaf(t) THEN dangerousPatterns(t.leaf)
  ELSE \E i \in DOMAIN t.kids : checkForInjection(t.kids[i])

\* the request body as the object that checkForInjection walks
BodyTree(b) ==
  Obj(<<Leaf(b.description), Leaf(b.date), Leaf(b.paymentMethod),
        Leaf(b.category), Obj([i \in DOMAIN b.tags |-> Leaf(b.tags[i])]),
        b.extra>>)

\* escape() of the validator library on the tokens of the model
Escape(s) ==
  CASE s = ScriptTag -> "&lt;script&gt;alert(1)&lt;&#x2F;script&gt;"
    [] s = "A&B" -> "A&amp;B"
    [] s = "A&amp;B" -> "A&amp;amp;B"
    [] OTHER -> s

\* sanitizeDescription: trim, escape, stripLow; an absent field becomes ""
sanitizeDescription(b) ==
  [b EXCEPT !.description = IF @ = Absent THEN "" ELSE Escape(@)]

\* sanitizeDate: a parsable date becomes its ISO form, any other value stays
sanitizeDate(b) ==
  [b EXCEPT !.date = IF @ # Absent /\ IsDate(@) THEN ToISOString(@) ELSE @]

\* sanitizeNumericFields(['amount']): parseFloat of a string
sanitizeNumericFields(b) ==
  [b EXCEPT !.amount = IF @ = "10.100" THEN "10.1" ELSE @]

\* sanitizeBooleanFields(['isRecurring']): Boolean(value), false when the
\* field is not sent
sanitizeBooleanFields(b) ==
  [b EXCEPT !.isRecurring = IF @ = "true" THEN "true" ELSE "false"]

\* the sanitizer chain of the income create route
SanitizeChain(b) ==
  sanitizeBooleanFields(sanitizeNumericFields(sanitizeDate(sanitizeDescription(b))))

\* sanitizeInput reads req.body[key] for every string key of the query:
\* the key of the query parameter is no field of the body, .trim() throws
sanitizeInputThrows(q) == \E i \in DOMAIN q.kids : IsLeaf(q.kids[i])

(* --------------------------- validation.js ---------------------------- *)
\* one entry of validationResult(req).array()
Err(field, msg, value) ==
  [field |-> field, message |-> msg, value |-> value, location |-> "body"]

When(cond, e) == IF cond THEN <<e>> ELSE <<>>

\* the characters that the description pattern allows
DescriptionChars(s) == s \in {"Test", "A201", "abc"}

IsFloatInRange(a) ==
  /\ a # Absent
  /\ (Amount(a).units >= 1
      \/ (Amount(a).units = 0 /\ Amount(a).hundredths >= AmountMinHundredths))
  /\ (Amount(a).units < AmountMaxUnits
      \/ (Amount(a).units = AmountMaxUnits /\ Amount(a).thousandths = 0))

\* transactionValidations.description
descriptionRule(b) ==
  When(~(StrLen(b.description) >= 1 /\ StrLen(b.description) <= DescMaxLen),
       Err("description", "La descripcion debe tener entre 1 y 200 caracteres",
           b.description))
  \o When(~DescriptionChars(b.description),
          Err("description", "La descripcion contiene caracteres no validos",
              b.description))

\* transactionValidations.amount without its custom rule
amountRuleRangeOnly(b) ==
  When(~IsFloatInRange(b.amount),
       Err("amount", "El monto debe ser un numero entre 0.01 y 999,999,999.99",
           b.amount))

\* transactionValidations.amount; the custom rule calls value.toString(),
\* which throws for an absent amount and is recorded as one more error
amountRule(b) ==
  When(~IsFloatInRange(b.amount),
       Err("amount", "El monto debe ser un numero entre 0.01 y 999,999,999.99",
           b.amount))
  \o When(b.amount = Absent,
          Err("amount", "Cannot read properties of undefined", b.amount))
  \o When(b.amount # Absent /\ DecimalDigits(b.amount) > AmountMaxDecimals,
          Err("amount", "El monto no puede tener mas de 2 decimales", b.amount))

\* transactionValidations.date: a value that is no date fails isISO8601 only
\* (every comparison with an invalid Date is false)
dateRule(b) ==
  When(~IsDate(b.date),
       Err("date", "La fecha debe ser valida (formato ISO 8601)", b.date))
  \o When(IsDate(b.date) /\ Day(b.date) < 0 - YearDays,
          Err("date", "La fecha no puede ser anterior a un ano", b.date))
  \o When(IsDate(b.date) /\ Day(b.date) > YearDays,
          Err("date", "La fecha no puede ser posterior a un ano", b.date))

\* transactionValidations.paymentMethod
paymentMethodRule(b) ==
  When(b.paymentMethod \notin incomePaymentMethods,
       Err("paymentMethod", "Metodo de pago no valido", b.paymentMethod))

\* transactionValidations.tags
tagsRule(b) ==
  When(Len(b.tags) > TagsMax,
       Err("tags", "No se pueden agregar mas de 10 etiquetas", "tags"))

\* incomeValidations.category
incomeCategoryRule(b) ==
  When(b.category \notin validIncomeCategories,
       Err("category", "Categoria de ingreso no valida", b.category))

\* incomeValidations.recurringFrequency: optional() skips the whole chain,
\* the custom rule included, when the field is not sent
recurringFrequencyRule(b) ==
  IF b.recurringFrequency = Absent THEN <<>>
  ELSE When(b.recurringFrequency \notin incomeFrequencies,
            Err("recurringFrequency", "Frecuencia de recurrencia no valida",
                b.recurringFrequency))
       \o When(b.isRecurring = "true" /\ b.recurringFrequency = "",
               Err("recurringFrequency",
                   "La frecuencia de recurrencia es requerida cuando isRecurring es true",
                   b.recurringFrequency))

\* the validation chains of POST /api/incomes, in the order of the route
incomeCreateRules(b) ==
  descriptionRule(b) \o amountRule(b) \o dateRule(b) \o paymentMethodRule(b)
  \o tagsRule(b) \o incomeCategoryRule(b) \o recurringFrequencyRule(b)

\* the validation chains of POST /api/expenses
expenseCreateRules(b) ==
  When(~(StrLen(b.description) >= ExpenseDescMinLen
         /\ StrLen(b.description) <= DescMaxLen),
       Err("description", "La descripcion debe tener entre 3 y 200 caracteres",
           b.description))
  \o When(~IsFloatInRange(b.amount),
          Err("amount", "El monto debe ser un numero entre 0.01 y 999,999,999.99",
              b.amount))
  \o When(b.category \notin validExpenseCategories,
          Err("category", "Categoria no valida", b.category))
  \o When(b.date # Absent /\ ~IsDate(b.date),
          Err("date", "La fecha debe ser valida", b.date))
  \o When(b.paymentMethod # Absent /\ b.paymentMethod \notin expensePaymentMethods,
          Err("paymentMethod", "Metodo de pago no valido", b.paymentMethod))
  \o When(b.recurringFrequency # Absent
          /\ b.recurringFrequency \notin schemaFrequencies,
          Err("recurringFrequency", "Frecuencia de recurrencia no valida",
              b.recurringFrequency))

\* the validation chains of PUT /api/incomes/:id and PUT /api/expenses/:id:
\* every field is optional
updateRules(b, categories) ==
  When(b.description # Absent
       /\ ~(StrLen(b.description) >= ExpenseDescMinLen
            /\ StrLen(b.description) <= DescMaxLen),
       Err("description", "La descripcion debe tener entre 3 y 200 caracteres",
           b.description))
  \o When(b.amount # Absent /\ ~IsFloatInRange(b.amount),
          Err("amount", "El monto debe ser un numero entre 0.01 y 999,999,999.99",
              b.amount))
  \o When(b.category # Absent /\ b.category \notin categories,
          Err("category", "Categoria no valida", b.category))
  \o When(b.date # Absent /\ ~IsDate(b.date),
          Err("date", "La fecha debe ser valida", b.date))
  \o When(b.paymentMethod # Absent /\ b.paymentMethod \notin expensePaymentMethods,
          Err("paymentMethod", "Metodo de pago no valido", b.paymentMethod))

\* isNaN(parseInt(value)) on the parameters of the model
IsNaN(v) == v \notin {"0", "2", "50", "200"}

\* sanitizeQueryParams: page and limit as the customSanitizers leave them
sanitizeQueryParams(q) ==
  [page |-> IF IsNaN(q.page) \/ ParseInt(q.page) < 1
              THEN PageDefault ELSE ParseInt(q.page),
   limit |-> IF IsNaN(q.limit) \/ ParseInt(q.limit) < 1 THEN LimitDefault
             ELSE IF ParseInt(q.limit) < LimitMax THEN ParseInt(q.limit)
             ELSE LimitMax]

\* queryValidations.page and .limit on the sanitized parameters
queryRules(sq) ==
  When(sq.page < 1,
       [Err("page", "La pagina debe ser un numero entero mayor a 0", sq.page)
          EXCEPT !.location = "query"])
  \o When(sq.limit < 1 \/ sq.limit > LimitMax,
          [Err("limit", "El limite debe ser un numero entre 1 y 100", sq.limit)
             EXCEPT !.location = "query"])

\* paramValidations.id
idRule(form) ==
  When(~IsMongoId(form),
       [Err("id", "ID no valido", form) EXCEPT !.location = "params"])

(* ----------------------- Income.js / Expense.js ------------------------ *)
\* the schema validation that save() and runValidators run: TRUE when the
\* document is rejected (description 3..200, amount 0.01..999999999.99,
\* category of the collection, payment method of the schema, a valid date,
\* recurringFrequency of the schema and required when isRecurring is true)
SchemaRejects(b, categories) ==
  \/ b.description = Absent
  \/ StrLen(b.description) < ExpenseDescMinLen
  \/ StrLen(b.description) > DescMaxLen
  \/ ~IsFloatInRange(b.amount)
  \/ b.category \notin categories
  \/ (b.date # Absent /\ ~IsDate(b.date))
  \/ (b.paymentMethod # Absent /\ b.paymentMethod \notin expensePaymentMethods)
  \/ (b.isRecurring = "true" /\ b.recurringFrequency = Absent)
  \/ (b.recurringFrequency # Absent /\ b.recurringFrequency \notin schemaFrequencies)

\* the document that new Income(data) / new Expense(data) stores: the date
\* defaults to Date.now, isActive to true
NewRecord(b, u) ==
  [user |-> u, amount |-> Amount(b.amount),
   date |-> IF b.date = Absent THEN "now" ELSE Instant(b.date),
   category |-> b.category, isActive |-> TRUE]

\* findOneAndUpdate(filter, req.body): the fields of the body replace those
\* of the document
UpdatedRecord(rec, b) ==
  [rec EXCEPT !.user = IF b.user = Absent THEN @ ELSE b.user,
              !.amount = IF b.amount = Absent THEN @ ELSE Amount(b.amount),
              !.date = IF b.date = Absent THEN @ ELSE Instant(b.date),
              !.category = IF b.category = Absent THEN @ ELSE b.category]

(* ----------------------------- the routes ----------------------------- *)
Routes ==
  {"incomeCreate", "expenseCreate", "incomeUpdate", "expenseUpdate",
   "incomeList", "incomeGet", "expenseGet", "incomeDelete", "expenseDelete",
   "usersSettings", "authMe", "authLogout", "adminStats", "apiDocs"}

IsCreate(route) == route \in {"incomeCreate", "expenseCreate"}
IsIncomeRoute(route) ==
  route \in {"incomeCreate", "incomeUpdate", "incomeList", "incomeGet", "incomeDelete"}
IsExpenseRoute(route) ==
  route \in {"expenseCreate", "expenseUpdate", "expenseGet", "expenseDelete"}

\* the routes whose handler reads req.body, and those with an :id
HasBody(route) ==
  route \in {"incomeCreate", "expenseCreate", "incomeUpdate", "expenseUpdate"}
HasId(route) ==
  route \in {"incomeUpdate", "expenseUpdate", "incomeGet", "expenseGet",
             "incomeDelete", "expenseDelete"}

\* the business rules of POST /api/incomes with the volume and amount limits
\* ahead of the active-account check
RouteStagesLimitsFirst(route) ==
  CASE route = "incomeCreate" ->
         <<"authenticateToken",
           "validateContentType", "limitDataSize", "preventInjection",
           "sanitizeInput", "sanitizers", "validators",
           "validateTransactionLimits", "validateActiveUser",
           "validateFinancialConsistency",
           "validateUserPlanLimits", "validateDataIntegrity",
           "handleValidationErrors", "createIncome">>
    [] route = "expenseCreate" ->
         <<"authenticateToken", "validators", "createExpense">>
    [] route = "incomeUpdate" ->
         <<"authenticateToken", "validators", "updateIncome">>
    [] route = "expenseUpdate" ->
         <<"authenticateToken", "validators", "updateExpense">>
    [] route = "incomeList" ->
         <<"authenticateToken", "queryChains", "validateActiveUser",
           "handleValidationErrors", "getIncomes">>
    [] route = "incomeGet" ->
         <<"authenticateToken", "paramValidations", "validateUserAccess",
           "handleValidationErrors", "getIncomeById">>
    [] route = "expenseGet" -> <<"authenticateToken", "getExpenseById">>
    [] route = "incomeDelete" -> <<"authenticateToken", "deleteIncome">>
    [] route = "expenseDelete" -> <<"authenticateToken", "deleteExpense">>
    [] route = "usersSettings" -> <<"authenticateToken", "getSettings">>
    [] route = "authMe" -> <<"authenticateToken", "getMe">>
    [] route = "authLogout" -> <<"authenticateToken", "logout">>
    [] route = "adminStats" -> <<"protectAdminRoute", "adminStats">>
    [] route = "apiDocs" -> <<"protectRoute", "swaggerUi">>
    [] OTHER -> <<>>

\* the gate in front of each route (router.use(authenticateToken) or the
\* route's own), its middleware array and its handler; "sanitizers",
\* "validators" and "queryChains" stand for consecutive chains
RouteStages(route) ==
  CASE route = "incomeCreate" ->
         <<"authenticateToken",
           "validateContentType", "limitDataSize", "preventInjection",
           "sanitizeInput", "sanitizers", "validators", "validateActiveUser",
           "validateTransactionLimits", "validateFinancialConsistency",
           "validateUserPlanLimits", "validateDataIntegrity",
           "handleValidationErrors", "createIncome">>
    [] route = "expenseCreate" ->
         <<"authenticateToken", "validators", "createExpense">>
    [] route = "incomeUpdate" ->
         <<"authenticateToken", "validators", "updateIncome">>
    [] route = "expenseUpdate" ->
         <<"authenticateToken", "validators", "updateExpense">>
    [] route = "incomeList" ->
         <<"authenticateToken", "queryChains", "validateActiveUser",
           "handleValidationErrors", "getIncomes">>
    [] route = "incomeGet" ->
         <<"authenticateToken", "paramValidations", "validateUserAccess",
           "handleValidationErrors", "getIncomeById">>
    [] route = "expenseGet" -> <<"authenticateToken", "getExpenseById">>
    [] route = "incomeDelete" -> <<"authenticateToken", "deleteIncome">>
    [] route = "expenseDelete" -> <<"authenticateToken", "deleteExpense">>
    [] route = "usersSettings" -> <<"authenticateToken", "getSettings">>
    [] route = "authMe" -> <<"authenticateToken", "getMe">>
    [] route = "authLogout" -> <<"authenticateToken", "logout">>
    [] route = "adminStats" -> <<"protectAdminRoute", "adminStats">>
    [] route = "apiDocs" -> <<"protectRoute", "swaggerUi">>
    [] OTHER -> <<>>

\* app.use('/api/incomes', incomeRoutes), app.use('/api/expenses', ...)
MountPath(route) ==
  CASE IsIncomeRoute(route) -> <<"api", "incomes">>
    [] IsExpenseRoute(route) -> <<"api", "expenses">>
    [] route = "usersSettings" -> <<"api", "users">>
    [] route \in {"authMe", "authLogout"} -> <<"api", "auth">>
    [] OTHER -> <<>>

OriginalUrl(route) ==
  MountPath(route)
  \o (CASE HasId(route) -> <<"id">>
        [] route = "usersSettings" -> <<"settings">>
        [] route = "authMe" -> <<"me">>
        [] route = "authLogout" -> <<"logout">>
        [] route = "adminStats" -> <<"api", "admin", "stats">>
        [] route = "apiDocs" -> <<"api-docs">>
        [] OTHER -> <<>>)

\* req.path inside a mounted router is relative to the mount point
ReqPath(route) ==
  SubSeq(OriginalUrl(route), Len(MountPath(route)) + 1, Len(OriginalUrl(route)))

\* req.path.includes('/incomes'), req.path.includes('/expenses')
PathIncludes(path, segment) == \E i \in DOMAIN path : path[i] = segment

FirstStage(route) == RouteStages(route)[1]

StageAfter(route, stage) ==
  LET st == RouteStages(route)
      i == CHOOSE k \in DOMAIN st : st[k] = stage
  IN st[i + 1]

(* ------------------------------ requests ------------------------------ *)
EmptyBody ==
  [description |-> Absent, amount |-> Absent, date |-> Absent,
   paymentMethod |-> Absent, category |-> Absent, tags |-> <<>>,
   extra |-> Obj(<<>>), isRecurring |-> Absent, recurringFrequency |-> Absent,
   user |-> Absent]

NominalCategory(route) ==
  IF IsIncomeRoute(route) THEN "salario" ELSE "alimentacion"

NoReq ==
  [route |-> "none", token |-> "valid", user |-> "u1", ctype |-> "json",
   size |-> "small", query |-> Obj(<<>>), page |-> Absent, limit |-> Absent,
   raw |-> EmptyBody, id |-> 0, idform |-> "hex24"]

Bit(c) == IF c THEN 1 ELSE 0

\* the nominal body of a route: "Test", 100, today, efectivo, the first
\* category of the route, no tags, nothing nested, no recurrence, no user;
\* no body at all on the routes that read none
NominalRaw(route) ==
  IF HasBody(route)
    THEN [description |-> "Test", amount |-> "100", date |-> "today",
          paymentMethod |-> "efectivo", category |-> NominalCategory(route),
          tags |-> <<>>, extra |-> Obj(<<>>),
          isRecurring |-> Absent, recurringFrequency |-> Absent, user |-> Absent]
    ELSE EmptyBody

\* the nominal request of a route: a valid token of principal u1, JSON,
\* small, no query, the nominal body, a well-formed id
NominalRequest(route, id) ==
  [route |-> route, token |-> "valid", user |-> "u1", ctype |-> "json",
   size |-> "small", query |-> Obj(<<>>), page |-> Absent, limit |-> Absent,
   raw |-> NominalRaw(route), id |-> id, idform |-> "hex24"]

\* the number of aspects in which a request departs from the nominal one
Dev(q) ==
  LET nom == NominalRaw(q.route) IN
  Bit(q.token # "valid") + Bit(q.user # "u1") + Bit(q.ctype # "json")
  + Bit(q.size # "small") + Bit(q.query # Obj(<<>>))
  + Bit(q.page # Absent) + Bit(q.limit # Absent) + Bit(q.idform # "hex24")
  + Bit(q.raw.description # nom.description)
  + Bit(q.raw.amount # nom.amount) + Bit(q.raw.date # nom.date)
  + Bit(q.raw.paymentMethod # nom.paymentMethod)
  + Bit(q.raw.category # nom.category)
  + Bit(q.raw.tags # <<>>) + Bit(q.raw.extra # Obj(<<>>))
  + Bit(q.raw.isRecurring # Absent) + Bit(q.raw.recurringFrequency # Absent)
  + Bit(q.raw.user # Absent)

\* the aspects of a request that the model varies
Aspects ==
  <<"token", "user", "idform", "page", "limit", "ctype", "description",
    "amount", "date", "paymentMethod", "category", "bodyUser", "isRecurring",
    "recurringFrequency", "size", "query", "tags", "extra">>

\* the requests that differ from q in the aspect at most; a field that no
\* stage of the route reads stays nominal
AspectVariants(q, aspect) ==
  LET transaction == IsIncomeRoute(q.route) \/ IsExpenseRoute(q.route)
      only(cond, S) == IF cond THEN S ELSE {q}
  IN CASE aspect = "token" -> {[q EXCEPT !.token = v] : v \in TokenValues}
       [] aspect = "user" ->
            only(transaction, {[q EXCEPT !.user = v] : v \in Users})
       [] aspect = "idform" ->
            only(HasId(q.route), {[q EXCEPT !.idform = v] : v \in IdForms})
       [] aspect = "page" ->
            only(q.route = "incomeList", {[q EXCEPT !.page = v] : v \in PageValues})
       [] aspect = "limit" ->
            only(q.route = "incomeList", {[q EXCEPT !.limit = v] : v \in LimitValues})
       [] aspect = "ctype" ->
            only(HasBody(q.route), {[q EXCEPT !.ctype = v] : v \in {"json", "text"}})
       [] aspect = "description" ->
            only(HasBody(q.route), {[q EXCEPT !.raw.description = v] : v \in DescValues})
       [] aspect = "amount" ->
            only(HasBody(q.route), {[q EXCEPT !.raw.amount = v] : v \in AmountValues})
       [] aspect = "date" ->
            only(HasBody(q.route), {[q EXCEPT !.raw.date = v] : v \in DateValues})
       [] aspect = "paymentMethod" ->
            only(HasBody(q.route),
                 {[q EXCEPT !.raw.paymentMethod = v] : v \in PaymentValues})
       [] aspect = "category" ->
            only(HasBody(q.route), {[q EXCEPT !.raw.category = v] : v \in CategoryValues})
       [] aspect = "bodyUser" ->
            only(HasBody(q.route), {[q EXCEPT !.raw.user = v] : v \in BodyUserValues})
       [] aspect = "isRecurring" ->
            only(IsCreate(q.route),
                 {[q EXCEPT !.raw.isRecurring = v] : v \in RecurringValues})
       [] aspect = "recurringFrequency" ->
            only(IsCreate(q.route),
                 {[q EXCEPT !.raw.recurringFrequency = v] : v \in FrequencyValues})
       [] aspect = "size" ->
            only(q.route = "incomeCreate", {[q EXCEPT !.size = v] : v \in {"small", "big"}})
       [] aspect = "query" ->
            only(q.route = "incomeCreate", {[q EXCEPT !.query = v] : v \in QueryValues})
       [] aspect = "tags" ->
            only(q.route = "incomeCreate", {[q EXCEPT !.raw.tags = v] : v \in TagsValues})
       [] OTHER ->
            only(q.route = "incomeCreate", {[q EXCEPT !.raw.extra = v] : v \in ExtraValues})

\* the requests that differ from q in at most one aspect
Variants(q) == UNION {AspectVariants(q, Aspects[k]) : k \in DOMAIN Aspects}

\* the requests of S, and those that depart from one of them in some of the
\* first k aspects, with at most n departures from a nominal request in all
RECURSIVE Spread(_, _, _)
Spread(S, k, n) ==
  IF k = 0 THEN S
  ELSE LET T == Spread(S, k - 1, n)
       IN T \cup UNION {AspectVariants(q, Aspects[k]) : q \in {t \in T : Dev(t) < n}}

Within(S, n) == Spread(S, Len(Aspects), n)

NominalRequests ==
  {NominalRequest(route, 0) : route \in {r \in Routes : ~HasId(r)}}
  \cup {NominalRequest(route, id) :
          route \in {r \in Routes : HasId(r)}, id \in 1..MaxRecords}

\* the requests with at most n departures from a nominal request
RequestsWithin == [n \in 0..MaxBad |-> Within(NominalRequests, n)]

\* the requests with at most MaxBad departures from a nominal request
Requests == RequestsWithin[MaxBad]

\* express.json parses a JSON body only; any other body is left empty
ParsedBody(q) == IF q.ctype = "json" THEN q.raw ELSE EmptyBody

(* ------------------------------- state -------------------------------- *)
\* users     the User documents the pipeline reads (isActive, lastLogin,
\*           and the plan field a stored document may carry)
\* bulk      per user, the number of further active incomes and of further
\*           active expenses dated today whose amount no draft carries and
\*           which no request addresses
\* incomes, expenses   the two collections; a document's id is its index
\* req, body, errors   per slot: the request, req.body, validationResult(req)
\* pc        per slot: "idle", the stage to run next, or "done"
\* resp      per slot: the responses sent so far
\* trace     per slot: the stages that ran; reads: store reads of the
\*           business rules
NominalUser == [isActive |-> TRUE, daysSinceLogin |-> 0, plan |-> Absent]

\* the plan field of a stored User document: none, or a tier of planLimits
StoredPlans == {Absent, "premium", "enterprise"}

BulkLoads ==
  {0, maxDailyTransactions - 1, maxDailyTransactions,
   freeMaxTransactions - 1, freeMaxTransactions}

NoBulk == [incomes |-> 0, expenses |-> 0]

ConfigDev == Bit(~users["u1"].isActive) + Bit(users["u1"].daysSinceLogin # 0)
             + Bit(users["u1"].plan # Absent)
             + Bit(bulk["u1"].incomes # 0) + Bit(bulk["u1"].expenses # 0)

Init ==
  /\ users \in [Users -> [isActive : BOOLEAN,
                           daysSinceLogin : {0, maxInactiveDays, maxInactiveDays + 1},
                           plan : StoredPlans]]
  /\ users["u2"] = NominalUser
  /\ bulk \in [Users -> [incomes : BulkLoads, expenses : BulkLoads]]
  /\ bulk["u2"] = NoBulk
  /\ ConfigDev <= MaxBad
  /\ incomes = <<>>
  /\ expenses = <<>>
  /\ req = [r \in Slots |-> NoReq]
  /\ body = [r \in Slots |-> EmptyBody]
  /\ pc = [r \in Slots |-> "idle"]
  /\ errors = [r \in Slots |-> <<>>]
  /\ resp = [r \in Slots |-> <<>>]
  /\ trace = [r \in Slots |-> <<>>]
  /\ reads = [r \in Slots |-> 0]

Response(status, message) ==
  [status |-> status, message |-> message, validationErrors |-> <<>>,
   details |-> <<>>, data |-> <<>>]

\* the stage at pc[r] runs ...
Runs(r, stage) ==
  /\ pc[r] = stage
  /\ trace' = [trace EXCEPT ![r] = Append(@, stage)]

\* ... and answers (res.status(..).json(..) and return)
Reply(r, rsp) ==
  /\ resp' = [resp EXCEPT ![r] = Append(@, rsp)]
  /\ pc' = [pc EXCEPT ![r] = "done"]

\* ... or calls next()
CallNext(r, stage) ==
  /\ resp' = resp
  /\ pc' = [pc EXCEPT ![r] = StageAfter(req[r].route, stage)]

Read(r, n) == reads' = [reads EXCEPT ![r] = @ + n]

\* a request arrives in slot r; express.json has parsed its body
Arrive(r, q) ==
  /\ pc[r] = "idle"
  /\ req' = [req EXCEPT ![r] = q]
  /\ body' = [body EXCEPT ![r] = ParsedBody(q)]
  /\ pc' = [pc EXCEPT ![r] = FirstStage(q.route)]
  /\ UNCHANGED <<users, bulk, incomes, expenses, errors, resp, trace, reads>>

\* the departures of a stored document: its presence, and each field that
\* differs from what the nominal request of its collection stores
RecordDev(rec, category) ==
  1 + Bit(rec.user # "u1") + Bit(rec.amount # Amount("100"))
    + Bit(rec.date # "today") + Bit(rec.category # category)

RECURSIVE SumDev(_, _, _)
SumDev(store, category, n) ==
  IF n = 0 THEN 0
  ELSE RecordDev(store[n], category) + SumDev(store, category, n - 1)

StoreDev ==
  SumDev(incomes, NominalCategory("incomeCreate"), Len(incomes))
  + SumDev(expenses, NominalCategory("expenseCreate"), Len(expenses))

\* a collection is not grown beyond MaxRecords documents
HasRoom(q) ==
  /\ q.route = "incomeCreate" => Len(incomes) < MaxRecords
  /\ q.route = "expenseCreate" => Len(expenses) < MaxRecords

\* requests are served one at a time; the departures of the request and of
\* the principal and the stored documents together stay within MaxBad
Start ==
  /\ \A s \in Slots : pc[s] = "idle"
  /\ ConfigDev + StoreDev <= MaxBad
  /\ \E q \in RequestsWithin[MaxBad - ConfigDev - StoreDev] :
       /\ Dev(q) + ConfigDev + StoreDev <= MaxBad
       /\ HasRoom(q)
       /\ Arrive(1, q)

\* the response has been delivered, the slot is free again
Finish(r) ==
  /\ pc[r] = "done"
  /\ req' = [req EXCEPT ![r] = NoReq]
  /\ body' = [body EXCEPT ![r] = EmptyBody]
  /\ pc' = [pc EXCEPT ![r] = "idle"]
  /\ errors' = [errors EXCEPT ![r] = <<>>]
  /\ resp' = [resp EXCEPT ![r] = <<>>]
  /\ trace' = [trace EXCEPT ![r] = <<>>]
  /\ reads' = [reads EXCEPT ![r] = 0]
  /\ UNCHANGED <<users, bulk, incomes, expenses>>

(* ------------------ guards and sanitizers (sanitization.mjs) ---------- *)
validateContentType(r) ==
  /\ Runs(r, "validateContentType")
  /\ IF req[r].ctype # "json"
       THEN Reply(r, Response(415, "Tipo de contenido no soportado"))
       ELSE CallNext(r, "validateContentType")
  /\ UNCHANGED <<users, bulk, incomes, expenses, req, body, errors, reads>>

limitDataSize(r) ==
  /\ Runs(r, "limitDataSize")
  /\ IF req[r].size = "big"
       THEN Reply(r, Response(413, "Datos demasiado grandes"))
       ELSE CallNext(r, "limitDataSize")
  /\ UNCHANGED <<users, bulk, incomes, expenses, req, body, errors, reads>>

preventInjection(r) ==
  /\ Runs(r, "preventInjection")
  /\ IF checkForInjection(BodyTree(body[r])) \/ checkForInjection(req[r].query)
       THEN Reply(r, Response(400, "Contenido potencialmente peligroso detectado"))
       ELSE CallNext(r, "preventInjection")
  /\ UNCHANGED <<users, bulk, incomes, expenses, req, body, errors, reads>>

\* a throw of sanitizeInput reaches errorHandler, which answers 500
sanitizeInput(r) ==
  /\ Runs(r, "sanitizeInput")
  /\ IF sanitizeInputThrows(req[r].query)
       THEN Reply(r, Response(500, "Cannot read properties of undefined"))
       ELSE CallNext(r, "sanitizeInput")
  /\ UNCHANGED <<users, bulk, incomes, expenses, req, body, errors, reads>>

sanitizers(r) ==
  /\ Runs(r, "sanitizers")
  /\ body' = [body EXCEPT ![r] = SanitizeChain(@)]
  /\ CallNext(r, "sanitizers")
  /\ UNCHANGED <<users, bulk, incomes, expenses, req, errors, reads>>

(* ----------------------- validators (validation.js) ------------------- *)
RouteRules(route, b) ==
  CASE route = "incomeCreate" -> incomeCreateRules(b)
    [] route = "expenseCreate" -> expenseCreateRules(b)
    [] route = "incomeUpdate" -> updateRules(b, validIncomeCategories)
    [] OTHER -> updateRules(b, validExpenseCategories)

\* the validation chains record their errors in the request and call next()
validators(r) ==
  /\ Runs(r, "validators")
  /\ errors' = [errors EXCEPT ![r] = RouteRules(req[r].route, body[r])]
  /\ CallNext(r, "validators")
  /\ UNCHANGED <<users, bulk, incomes, expenses, req, body, reads>>

\* handleValidationErrors without the return in front of its response
handleValidationErrorsNoReturn(r) ==
  /\ Runs(r, "handleValidationErrors")
  /\ resp' = [resp EXCEPT ![r] = IF errors[r] # <<>>
                                   THEN Append(@, Response(400, "Datos de entrada invalidos"))
                                   ELSE @]
  /\ pc' = [pc EXCEPT ![r] = StageAfter(req[r].route, "handleValidationErrors")]
  /\ UNCHANGED <<users, bulk, incomes, expenses, req, body, errors, reads>>

handleValidationErrors(r) ==
  /\ Runs(r, "handleValidationErrors")
  /\ IF errors[r] # <<>>
       THEN Reply(r, [Response(400, "Datos de entrada invalidos")
                        EXCEPT !.validationErrors = errors[r]])
       ELSE CallNext(r, "handleValidationErrors")
  /\ UNCHANGED <<users, bulk, incomes, expenses, req, body, errors, reads>>

(* ---------------- business rules (businessValidation.js) ------------- *)
\* the count of the day over both collections
CountOfDayWithExpenses(u, d) ==
  Cardinality({i \in DOMAIN incomes :
                 /\ incomes[i].user = u /\ incomes[i].isActive
                 /\ Day(incomes[i].date) = Day(d)})
  + Cardinality({i \in DOMAIN expenses :
                   /\ expenses[i].user = u /\ expenses[i].isActive
                   /\ Day(expenses[i].date) = Day(d)})
  + (IF Day(d) = 0 THEN bulk[u].incomes + bulk[u].expenses ELSE 0)

\* Income.countDocuments({user, date: {$gte: today, $lt: tomorrow}, isActive})
CountIncomesOfDay(u, d) ==
  Cardinality({i \in DOMAIN incomes :
                 /\ incomes[i].user = u /\ incomes[i].isActive
                 /\ Day(incomes[i].date) = Day(d)})
  + (IF Day(d) = 0 THEN bulk[u].incomes ELSE 0)

\* Income.countDocuments({user, isActive}) + Expense.countDocuments({user, isActive})
CountActive(u) ==
  Cardinality({i \in DOMAIN incomes : incomes[i].user = u /\ incomes[i].isActive})
  + bulk[u].incomes
  + Cardinality({i \in DOMAIN expenses : expenses[i].user = u /\ expenses[i].isActive})
  + bulk[u].expenses

\* findOne({user, amount, date, category}) without isActive in the filter
FindDuplicateDeleted(store, u, b) ==
  \E i \in DOMAIN store :
    /\ store[i].user = u
    /\ store[i].amount = Amount(b.amount)
    /\ store[i].date = Instant(b.date)
    /\ store[i].category = b.category

\* findOne({user, amount, date, category, isActive: true}) on a collection
FindDuplicate(store, u, b) ==
  \E i \in DOMAIN store :
    /\ store[i].user = u /\ store[i].isActive
    /\ store[i].amount = Amount(b.amount)
    /\ store[i].date = Instant(b.date)
    /\ store[i].category = b.category

\* the User schema has no plan path: whatever the stored document carries,
\* user.plan is undefined, and user.plan || 'free' is 'free'
UserPlan(u) == "free"

planLimits(plan) ==
  CASE plan = "free" -> [maxTransactions |-> freeMaxTransactions, maxTags |-> freeMaxTags]
    [] plan = "premium" -> [maxTransactions |-> premiumMaxTransactions, maxTags |-> premiumMaxTags]
    [] OTHER -> [maxTransactions |-> -1, maxTags |-> -1]

InternalError == Response(500, "Error interno del servidor")

\* validateActiveUser with >= in the comparison with maxInactiveDays
validateActiveUserAtLimit(r) ==
  /\ Runs(r, "validateActiveUser")
  /\ Read(r, 1)
  /\ IF ~users[req[r].user].isActive
       THEN Reply(r, Response(403, "Cuenta desactivada"))
       ELSE IF users[req[r].user].daysSinceLogin >= maxInactiveDays
              THEN Reply(r, Response(401, "Sesion expirada por inactividad"))
              ELSE CallNext(r, "validateActiveUser")
  /\ UNCHANGED <<users, bulk, incomes, expenses, req, body, errors>>

validateActiveUser(r) ==
  /\ Runs(r, "validateActiveUser")
  /\ Read(r, 1)
  /\ IF ~users[req[r].user].isActive
       THEN Reply(r, Response(403, "Cuenta desactivada"))
       ELSE IF users[req[r].user].daysSinceLogin > maxInactiveDays
              THEN Reply(r, Response(401, "Sesion expirada por inactividad"))
              ELSE CallNext(r, "validateActiveUser")
  /\ UNCHANGED <<users, bulk, incomes, expenses, req, body, errors>>

\* validateTransactionLimits rejecting only above the daily ceiling
validateTransactionLimitsAbove(r) ==
  /\ Runs(r, "validateTransactionLimits")
  /\ IF ~IsDate(body[r].date)
       THEN Reply(r, InternalError) /\ Read(r, 0)
       ELSE /\ Read(r, 1)
            /\ IF CountIncomesOfDay(req[r].user, body[r].date) > maxDailyTransactions
                 THEN Reply(r, Response(429, "Limite diario de transacciones excedido"))
                 ELSE IF body[r].amount # Absent
                         /\ AmountAbove(Amount(body[r].amount), maxTransactionAmount)
                        THEN Reply(r, Response(400, "Monto excesivo"))
                        ELSE CallNext(r, "validateTransactionLimits")
  /\ UNCHANGED <<users, bulk, incomes, expenses, req, body, errors>>

\* a date that is no date makes the count query throw (the cast of the
\* Invalid Date fails), which the catch block answers with 500
validateTransactionLimits(r) ==
  /\ Runs(r, "validateTransactionLimits")
  /\ IF ~IsDate(body[r].date)
       THEN Reply(r, InternalError) /\ Read(r, 0)
       ELSE /\ Read(r, 1)
            /\ IF CountIncomesOfDay(req[r].user, body[r].date) >= maxDailyTransactions
                 THEN Reply(r, Response(429, "Limite diario de transacciones excedido"))
                 ELSE IF body[r].amount # Absent
                         /\ AmountAbove(Amount(body[r].amount), maxTransactionAmount)
                        THEN Reply(r, Response(400, "Monto excesivo"))
                        ELSE CallNext(r, "validateTransactionLimits")
  /\ UNCHANGED <<users, bulk, incomes, expenses, req, body, errors>>

\* validateFinancialConsistency with a horizon one day short
validateFinancialConsistencyShort(r) ==
  /\ Runs(r, "validateFinancialConsistency")
  /\ IF body[r].amount # Absent /\ AmountNotPositive(Amount(body[r].amount))
       THEN Reply(r, Response(400, "Monto invalido"))
       ELSE IF IsDate(body[r].date) /\ Day(body[r].date) >= maxFutureDays
              THEN Reply(r, Response(400, "Fecha invalida"))
              ELSE CallNext(r, "validateFinancialConsistency")
  /\ UNCHANGED <<users, bulk, incomes, expenses, req, body, errors, reads>>

validateFinancialConsistency(r) ==
  LET isIncome == PathIncludes(ReqPath(req[r].route), "incomes")
      isExpense == PathIncludes(ReqPath(req[r].route), "expenses")
  IN
  /\ Runs(r, "validateFinancialConsistency")
  /\ IF body[r].amount # Absent /\ AmountNotPositive(Amount(body[r].amount))
       THEN Reply(r, Response(400, "Monto invalido"))
       ELSE IF IsDate(body[r].date) /\ Day(body[r].date) > maxFutureDays
              THEN Reply(r, Response(400, "Fecha invalida"))
              ELSE IF \/ isIncome /\ body[r].category \notin validIncomeCategories
                      \/ isExpense /\ body[r].category \notin validExpenseCategories
                     THEN Reply(r, Response(400, "Categoria invalida"))
                     ELSE CallNext(r, "validateFinancialConsistency")
  /\ UNCHANGED <<users, bulk, incomes, expenses, req, body, errors, reads>>

validateUserPlanLimits(r) ==
  LET limits == planLimits(UserPlan(req[r].user)) IN
  /\ Runs(r, "validateUserPlanLimits")
  /\ Read(r, IF limits.maxTransactions > 0 THEN 3 ELSE 1)
  /\ IF limits.maxTransactions > 0 /\ CountActive(req[r].user) >= limits.maxTransactions
       THEN Reply(r, Response(429, "Limite de plan excedido"))
       ELSE IF limits.maxTags > 0 /\ Len(body[r].tags) > limits.maxTags
              THEN Reply(r, Response(400, "Limite de etiquetas excedido"))
              ELSE CallNext(r, "validateUserPlanLimits")
  /\ UNCHANGED <<users, bulk, incomes, expenses, req, body, errors>>

validateDataIntegrity(r) ==
  LET b == body[r]
      checks == /\ b.amount # Absent /\ Amount(b.amount) # Amount("0")
                /\ b.date \notin {Absent, ""}
                /\ b.category \notin {Absent, ""}
      inIncomes == FindDuplicate(incomes, req[r].user, b)
      inExpenses == FindDuplicate(expenses, req[r].user, b)
  IN
  /\ Runs(r, "validateDataIntegrity")
  /\ IF checks /\ ~IsDate(b.date)
       THEN Reply(r, InternalError) /\ Read(r, 0)
       ELSE /\ Read(r, IF ~checks THEN 0 ELSE IF inIncomes THEN 1 ELSE 2)
            /\ IF checks /\ (inIncomes \/ inExpenses)
                 THEN Reply(r, Response(409, "Transaccion duplicada"))
                 ELSE CallNext(r, "validateDataIntegrity")
  /\ UNCHANGED <<users, bulk, incomes, expenses, req, body, errors>>

(* --------------------------- the handlers ----------------------------- *)
HandlerInvalid(r) ==
  [Response(400, "Datos de entrada invalidos") EXCEPT !.details = errors[r]]

\* createIncome with a look for a duplicate in front of the save
createIncomeRechecked(r) ==
  /\ Runs(r, "createIncome")
  /\ IF errors[r] # <<>>
       THEN Reply(r, HandlerInvalid(r)) /\ UNCHANGED incomes
       ELSE IF FindDuplicate(incomes, req[r].user, body[r])
              THEN Reply(r, Response(409, "Transaccion duplicada")) /\ UNCHANGED incomes
              ELSE /\ incomes' = Append(incomes, NewRecord(body[r], req[r].user))
                   /\ Reply(r, [Response(201, "Ingreso creado exitosamente")
                                  EXCEPT !.data = <<body[r].description>>])
  /\ UNCHANGED <<users, bulk, expenses, req, body, errors, reads>>

\* createIncome: validationResult, then new Income({...req.body, user}).save()
createIncome(r) ==
  /\ Runs(r, "createIncome")
  /\ IF errors[r] # <<>>
       THEN Reply(r, HandlerInvalid(r)) /\ UNCHANGED incomes
       ELSE IF SchemaRejects(body[r], validIncomeCategories)
              THEN Reply(r, InternalError) /\ UNCHANGED incomes
              ELSE /\ incomes' = Append(incomes, NewRecord(body[r], req[r].user))
                   /\ Reply(r, [Response(201, "Ingreso creado exitosamente")
                                  EXCEPT !.data = <<body[r].description>>])
  /\ UNCHANGED <<users, bulk, expenses, req, body, errors, reads>>

\* createExpense with the save in front of the look at the validation result
createExpenseSavesFirst(r) ==
  /\ Runs(r, "createExpense")
  /\ expenses' = Append(expenses, NewRecord(body[r], req[r].user))
  /\ IF errors[r] # <<>>
       THEN Reply(r, HandlerInvalid(r))
       ELSE IF SchemaRejects(body[r], validExpenseCategories)
              THEN Reply(r, InternalError)
              ELSE Reply(r, [Response(201, "Gasto creado exitosamente")
                               EXCEPT !.data = <<body[r].description>>])
  /\ UNCHANGED <<users, bulk, incomes, req, body, errors, reads>>

\* createExpense: validationResult, then new Expense({...req.body, user}).save()
createExpense(r) ==
  /\ Runs(r, "createExpense")
  /\ IF errors[r] # <<>>
       THEN Reply(r, HandlerInvalid(r)) /\ UNCHANGED expenses
       ELSE IF SchemaRejects(body[r], validExpenseCategories)
              THEN Reply(r, InternalError) /\ UNCHANGED expenses
              ELSE /\ expenses' = Append(expenses, NewRecord(body[r], req[r].user))
                   /\ Reply(r, [Response(201, "Gasto creado exitosamente")
                                  EXCEPT !.data = <<body[r].description>>])
  /\ UNCHANGED <<users, bulk, incomes, req, body, errors, reads>>

\* the filter {_id: id, isActive: true} without the user
OwnedByAnyone(store, id, u) ==
  id \in DOMAIN store /\ store[id].isActive

\* findOneAndUpdate({_id: id, user, isActive: true}, req.body, {runValidators})
Owned(store, id, u) ==
  id \in DOMAIN store /\ store[id].user = u /\ store[id].isActive

UpdateRejects(b, categories) ==
  \/ (b.amount # Absent /\ ~IsFloatInRange(b.amount))
  \/ (b.category # Absent /\ b.category \notin categories)
  \/ (b.date # Absent /\ ~IsDate(b.date))
  \/ (b.description # Absent /\ (StrLen(b.description) < ExpenseDescMinLen
                                 \/ StrLen(b.description) > DescMaxLen))

updateIncome(r) ==
  /\ Runs(r, "updateIncome")
  /\ IF errors[r] # <<>>
       THEN Reply(r, HandlerInvalid(r)) /\ UNCHANGED incomes
       ELSE IF ~IsMongoId(req[r].idform)
                 \/ UpdateRejects(body[r], validIncomeCategories)
              THEN Reply(r, InternalError) /\ UNCHANGED incomes
              ELSE IF ~Owned(incomes, req[r].id, req[r].user)
                     THEN Reply(r, Response(404, "Ingreso no encontrado"))
                          /\ UNCHANGED incomes
                     ELSE /\ incomes' = [incomes EXCEPT ![req[r].id] =
                                           UpdatedRecord(@, body[r])]
                          /\ Reply(r, [Response(200, "Ingreso actualizado exitosamente")
                                         EXCEPT !.data = <<body[r].description>>])
  /\ UNCHANGED <<users, bulk, expenses, req, body, errors, reads>>

updateExpense(r) ==
  /\ Runs(r, "updateExpense")
  /\ IF errors[r] # <<>>
       THEN Reply(r, HandlerInvalid(r)) /\ UNCHANGED expenses
       ELSE IF ~IsMongoId(req[r].idform)
                 \/ UpdateRejects(body[r], validExpenseCategories)
              THEN Reply(r, InternalError) /\ UNCHANGED expenses
              ELSE IF ~Owned(expenses, req[r].id, req[r].user)
                     THEN Reply(r, Response(404, "Gasto no encontrado"))
                          /\ UNCHANGED expenses
                     ELSE /\ expenses' = [expenses EXCEPT ![req[r].id] =
                                            UpdatedRecord(@, body[r])]
                          /\ Reply(r, [Response(200, "Gasto actualizado exitosamente")
                                         EXCEPT !.data = <<body[r].description>>])
  /\ UNCHANGED <<users, bulk, incomes, req, body, errors, reads>>

(* ------------------------- the gates (auth.js) ------------------------ *)
\* authenticateToken: no token, or a token that jwt.verify rejects, is
\* answered 401; req.user is the principal of the token
authenticateToken(r) ==
  /\ Runs(r, "authenticateToken")
  /\ CASE req[r].token = "none" ->
            Reply(r, Response(401, "Token de acceso requerido"))
       [] Verify(req[r].token) = "JsonWebTokenError" ->
            Reply(r, Response(401, "Token invalido"))
       [] Verify(req[r].token) = "TokenExpiredError" ->
            Reply(r, Response(401, "Token expirado"))
       [] OTHER -> CallNext(r, "authenticateToken")
  /\ UNCHANGED <<users, bulk, incomes, expenses, req, body, errors, reads>>

\* protectRoute (routeAuth.mjs)
protectRoute(r) ==
  /\ Runs(r, "protectRoute")
  /\ CASE req[r].token = "none" ->
            Reply(r, Response(401, "Acceso no autorizado"))
       [] Verify(req[r].token) = "JsonWebTokenError" ->
            Reply(r, Response(401, "Token invalido"))
       [] Verify(req[r].token) = "TokenExpiredError" ->
            Reply(r, Response(401, "Token expirado"))
       [] OTHER -> CallNext(r, "protectRoute")
  /\ UNCHANGED <<users, bulk, incomes, expenses, req, body, errors, reads>>

\* protectAdminRoute (routeAuth.mjs): its catch block answers 500 whatever
\* jwt.verify throws; the principals of the model have the role 'user'
protectAdminRoute(r) ==
  /\ Runs(r, "protectAdminRoute")
  /\ CASE req[r].token = "none" ->
            Reply(r, Response(401, "Acceso no autorizado"))
       [] Verify(req[r].token) # "payload" -> Reply(r, InternalError)
       [] OTHER -> Reply(r, Response(403, "Acceso denegado"))
  /\ UNCHANGED <<users, bulk, incomes, expenses, req, body, errors, reads>>

(* --------------------- reading and deleting records ------------------- *)
\* sanitizeQueryParams and the queryValidations chains of GET /api/incomes
queryChains(r) ==
  /\ Runs(r, "queryChains")
  /\ errors' = [errors EXCEPT ![r] = queryRules(sanitizeQueryParams(req[r]))]
  /\ CallNext(r, "queryChains")
  /\ UNCHANGED <<users, bulk, incomes, expenses, req, body, reads>>

paramValidations(r) ==
  /\ Runs(r, "paramValidations")
  /\ errors' = [errors EXCEPT ![r] = idRule(req[r].idform)]
  /\ CallNext(r, "paramValidations")
  /\ UNCHANGED <<users, bulk, incomes, expenses, req, body, reads>>

\* validateUserAccess('income'): the cast of an id that is no ObjectId
\* throws, and the catch block answers 500
validateUserAccess(r) ==
  /\ Runs(r, "validateUserAccess")
  /\ IF ~IsMongoId(req[r].idform)
       THEN Reply(r, InternalError) /\ Read(r, 0)
       ELSE /\ Read(r, 1)
            /\ IF ~Owned(incomes, req[r].id, req[r].user)
                 THEN Reply(r, Response(404, "Recurso no encontrado"))
                 ELSE CallNext(r, "validateUserAccess")
  /\ UNCHANGED <<users, bulk, incomes, expenses, req, body, errors>>

\* the records of a collection that find({user, isActive: true}) returns
ActiveOf(store, u) ==
  SelectSeq(store, LAMBDA rec : rec.user = u /\ rec.isActive)

\* getIncomes: the page of the principal's active incomes; every page but
\* the first lies beyond the documents of the model
getIncomes(r) ==
  /\ Runs(r, "getIncomes")
  /\ Reply(r, [Response(200, "ok") EXCEPT
                 !.data = IF sanitizeQueryParams(req[r]).page = PageDefault
                            THEN ActiveOf(incomes, req[r].user) ELSE <<>>])
  /\ UNCHANGED <<users, bulk, incomes, expenses, req, body, errors, reads>>

\* findOne({_id: id, user, isActive: true}) and its answer
FindById(r, store, notFound) ==
  IF ~IsMongoId(req[r].idform) THEN Reply(r, InternalError)
  ELSE IF ~Owned(store, req[r].id, req[r].user)
         THEN Reply(r, Response(404, notFound))
         ELSE Reply(r, [Response(200, "ok") EXCEPT !.data = <<store[req[r].id]>>])

getIncomeById(r) ==
  /\ Runs(r, "getIncomeById")
  /\ FindById(r, incomes, "Ingreso no encontrado")
  /\ UNCHANGED <<users, bulk, incomes, expenses, req, body, errors, reads>>

getExpenseById(r) ==
  /\ Runs(r, "getExpenseById")
  /\ FindById(r, expenses, "Gasto no encontrado")
  /\ UNCHANGED <<users, bulk, incomes, expenses, req, body, errors, reads>>

\* findOneAndUpdate({_id: id, user, isActive: true}, {isActive: false})
deleteIncome(r) ==
  /\ Runs(r, "deleteIncome")
  /\ IF ~IsMongoId(req[r].idform)
       THEN Reply(r, InternalError) /\ UNCHANGED incomes
       ELSE IF ~Owned(incomes, req[r].id, req[r].user)
              THEN Reply(r, Response(404, "Ingreso no encontrado"))
                   /\ UNCHANGED incomes
              ELSE /\ incomes' = [incomes EXCEPT ![req[r].id].isActive = FALSE]
                   /\ Reply(r, Response(200, "Ingreso eliminado exitosamente"))
  /\ UNCHANGED <<users, bulk, expenses, req, body, errors, reads>>

deleteExpense(r) ==
  /\ Runs(r, "deleteExpense")
  /\ IF ~IsMongoId(req[r].idform)
       THEN Reply(r, InternalError) /\ UNCHANGED expenses
       ELSE IF ~Owned(expenses, req[r].id, req[r].user)
              THEN Reply(r, Response(404, "Gasto no encontrado"))
                   /\ UNCHANGED expenses
              ELSE /\ expenses' = [expenses EXCEPT ![req[r].id].isActive = FALSE]
                   /\ Reply(r, Response(200, "Gasto eliminado exitosamente"))
  /\ UNCHANGED <<users, bulk, incomes, req, body, errors, reads>>

\* the handlers behind the gate that touch no transaction
Serves(r, handler) ==
  /\ Runs(r, handler)
  /\ Reply(r, Response(200, "ok"))
  /\ UNCHANGED <<users, bulk, incomes, expenses, req, body, errors, reads>>

getSettings(r) == Serves(r, "getSettings")
getMe(r) == Serves(r, "getMe")
logout(r) == Serves(r, "logout")
swaggerUi(r) == Serves(r, "swaggerUi")

(* -------------------------- specifications ---------------------------- *)
\* the stages of the create and update routes
PipelineStage(r) ==
  \/ authenticateToken(r)
  \/ validateContentType(r)
  \/ limitDataSize(r)
  \/ preventInjection(r)
  \/ sanitizeInput(r)
  \/ sanitizers(r)
  \/ validators(r)
  \/ validateActiveUser(r)
  \/ validateTransactionLimits(r)
  \/ validateFinancialConsistency(r)
  \/ validateUserPlanLimits(r)
  \/ validateDataIntegrity(r)
  \/ handleValidationErrors(r)
  \/ createIncome(r)
  \/ createExpense(r)
  \/ updateIncome(r)
  \/ updateExpense(r)

\* the stages of the other routes
OtherStage(r) ==
  \/ protectRoute(r)
  \/ protectAdminRoute(r)
  \/ queryChains(r)
  \/ paramValidations(r)
  \/ validateUserAccess(r)
  \/ getIncomes(r)
  \/ getIncomeById(r)
  \/ getExpenseById(r)
  \/ deleteIncome(r)
  \/ deleteExpense(r)
  \/ getSettings(r)
  \/ getMe(r)
  \/ logout(r)
  \/ swaggerUi(r)

Stage(r) == PipelineStage(r) \/ OtherStage(r)

Next ==
  \/ Start
  \/ \E r \in Slots : Stage(r)
  \/ \E r \in Slots : Finish(r)

Spec == Init /\ [][Next]_vars

\* create and update requests served concurrently: nominal requests arrive
\* in any free slot while other requests are in flight
InFlight(route) == Cardinality({s \in Slots : req[s].route = route})

StartConcurrent ==
  \E r \in Slots :
    \/ \E route \in {"incomeCreate", "expenseCreate"} :
         /\ Len(IF route = "incomeCreate" THEN incomes ELSE expenses)
              + InFlight(route) < MaxRecords
         /\ Arrive(r, NominalRequest(route, 0))
    \/ \E route \in {"incomeUpdate", "expenseUpdate"}, id \in 1..MaxRecords :
         Arrive(r, NominalRequest(route, id))

InitConc == Init /\ ConfigDev = 0

NextConc ==
  \/ StartConcurrent
  \/ \E r \in Slots : PipelineStage(r)
  \/ \E r \in Slots : Finish(r)

SpecConc == InitConc /\ [][NextConc]_vars

(* ------------------------ notions of the claims ----------------------- *)
Done(r) == pc[r] = "done"

Ran(r, stage) == \E i \in DOMAIN trace[r] : trace[r][i] = stage

LastStage(r) == trace[r][Len(trace[r])]

BusinessRules ==
  <<"validateActiveUser", "validateTransactionLimits",
    "validateFinancialConsistency", "validateUserPlanLimits",
    "validateDataIntegrity">>

IsBusinessRule(stage) == \E i \in DOMAIN BusinessRules : BusinessRules[i] = stage

Handlers == {"createIncome", "createExpense", "updateIncome", "updateExpense"}

\* the active documents of principal u that carry the draft's amount, date
\* and category, in both collections
Twins(u, b) ==
  Cardinality({i \in DOMAIN incomes :
                 /\ incomes[i].user = u /\ incomes[i].isActive
                 /\ incomes[i].amount = Amount(b.amount)
                 /\ incomes[i].date = Instant(b.date)
                 /\ incomes[i].category = b.category})
  + Cardinality({i \in DOMAIN expenses :
                   /\ expenses[i].user = u /\ expenses[i].isActive
                   /\ expenses[i].amount = Amount(b.amount)
                   /\ expenses[i].date = Instant(b.date)
                   /\ expenses[i].category = b.category})

\* the errors the validation chains of the route find in the request
Violations(r) ==
  RouteRules(req[r].route,
             IF req[r].route = "incomeCreate"
               THEN SanitizeChain(ParsedBody(req[r]))
               ELSE ParsedBody(req[r]))

ValidationFailure(r) ==
  /\ resp[r][1].status = 400
  /\ resp[r][1].validationErrors = Violations(r)

(* ------------------------------- claims ------------------------------- *)

\* C1: on a create route a request that the schema validator finds in
\* violation is answered with the 400 validation failure carrying
\* validationErrors, whatever a business rule would answer: the validator
\* comes before the business rule evaluator.
C1_ValidatorBeforeBusinessRules ==
  \A r \in Slots :
    (Done(r) /\ req[r].route = "incomeCreate" /\ Ran(r, "validators")
     /\ errors[r] # <<>>)
      => ValidationFailure(r)

\* C2: for every draft with at least one schema violation no business rule
\* reads the store.
C2_NoStoreReadOnViolation ==
  \A r \in Slots :
    (IsCreate(req[r].route) /\ Ran(r, "validators") /\ errors[r] # <<>>)
      => reads[r] = 0

\* C3: no create or update handler is reached by a request that skipped
\* the injection guard, the sanitizer, the schema validator or a business
\* rule.
C3_HandlerBehindEveryStage ==
  \A r \in Slots :
    (\E h \in Handlers : Ran(r, h)) =>
      /\ Ran(r, "preventInjection")
      /\ Ran(r, "sanitizers")
      /\ Ran(r, "validators")
      /\ \A i \in DOMAIN BusinessRules : Ran(r, BusinessRules[i])

\* the checks of the business rule evaluator in the order of the claim;
\* each one with the middleware that holds it, the condition under which it
\* fails for the request in slot r, and the message it answers with
RuleChecks(r) ==
  LET u == req[r].user
      b == body[r]
  IN <<[stage |-> "validateActiveUser", message |-> "Cuenta desactivada",
        fails |-> ~users[u].isActive],
       [stage |-> "validateActiveUser", message |-> "Sesion expirada por inactividad",
        fails |-> users[u].daysSinceLogin > maxInactiveDays],
       [stage |-> "validateTransactionLimits", message |-> "Error interno del servidor",
        fails |-> ~IsDate(b.date)],
       [stage |-> "validateTransactionLimits",
        message |-> "Limite diario de transacciones excedido",
        fails |-> CountIncomesOfDay(u, b.date) >= maxDailyTransactions],
       [stage |-> "validateTransactionLimits", message |-> "Monto excesivo",
        fails |-> b.amount # Absent
                  /\ AmountAbove(Amount(b.amount), maxTransactionAmount)],
       [stage |-> "validateFinancialConsistency", message |-> "Monto invalido",
        fails |-> b.amount # Absent /\ AmountNotPositive(Amount(b.amount))],
       [stage |-> "validateFinancialConsistency", message |-> "Fecha invalida",
        fails |-> Day(b.date) > maxFutureDays],
       [stage |-> "validateUserPlanLimits", message |-> "Limite de plan excedido",
        fails |-> CountActive(u) >= freeMaxTransactions],
       [stage |-> "validateUserPlanLimits", message |-> "Limite de etiquetas excedido",
        fails |-> Len(b.tags) > freeMaxTags],
       [stage |-> "validateDataIntegrity", message |-> "Transaccion duplicada",
        fails |-> Twins(u, b) > 0]>>

Failing(r) == {i \in DOMAIN RuleChecks(r) : RuleChecks(r)[i].fails}

FirstFailing(r) ==
  RuleChecks(r)[CHOOSE i \in Failing(r) : \A j \in Failing(r) : i <= j]

StageRank(stage) ==
  CHOOSE i \in DOMAIN RouteStages("incomeCreate") :
    RouteStages("incomeCreate")[i] = stage

\* C4: the business rules run in the order active-account, volume limit,
\* amount ceiling, financial consistency, plan quota, duplicate detection;
\* a rule answers exactly when it holds the first failing check, with the
\* outcome of that check, and otherwise hands over to the next rule of the
\* order; a deactivated principal is answered 403 and never 429.
C4_BusinessRuleOrder ==
  [][\A r \in Slots :
       (req[r].route = "incomeCreate" /\ IsBusinessRule(pc[r]) /\ pc'[r] # pc[r]) =>
         /\ \A i \in DOMAIN BusinessRules :
              BusinessRules[i] = pc[r] =>
                /\ \A j \in 1..(i - 1) : Ran(r, BusinessRules[j])
                /\ \A j \in i..Len(BusinessRules) : ~Ran(r, BusinessRules[j])
         /\ IF Failing(r) # {} /\ FirstFailing(r).stage = pc[r]
              THEN /\ pc'[r] = "done"
                   /\ resp'[r][1].message = FirstFailing(r).message
                   /\ ~users[req[r].user].isActive =>
                        resp'[r][1].status = 403
              ELSE /\ StageRank(pc'[r]) = StageRank(pc[r]) + 1
                   /\ resp'[r] = <<>>
    ]_vars

\* C4 witness: a deactivated principal whose day is already at the volume
\* limit is answered 403 by the active-account check
C4_Witness ==
  \E r \in Slots :
    /\ Done(r) /\ req[r].route = "incomeCreate"
    /\ ~users[req[r].user].isActive
    /\ CountIncomesOfDay(req[r].user, body[r].date) >= maxDailyTransactions
    /\ LastStage(r) = "validateActiveUser"
    /\ resp[r][1].status = 403

\* a request has at most one response, is finished exactly when it has one,
\* and while in flight always has its next stage to run
C5_Responses ==
  \A r \in Slots :
    /\ Len(resp[r]) <= 1
    /\ Done(r) <=> Len(resp[r]) = 1
    /\ pc[r] \notin {"idle", "done"} => ENABLED Stage(r)

C5_NoStageAfterResponse ==
  \A r \in Slots :
    Done(r) =>
      \/ /\ Done(r)' /\ trace'[r] = trace[r] /\ resp'[r] = resp[r]
         /\ (\A s \in Slots \ {r} : pc'[s] = pc[s]) =>
              (incomes' = incomes /\ expenses' = expenses)
      \/ pc'[r] = "idle" /\ incomes' = incomes /\ expenses' = expenses

\* C5: every request gets exactly one response: never a second one, a
\* request is finished exactly when its response is sent, a request in
\* flight always has its next stage to run (also after a stage threw), and
\* once the response is sent no stage and no handler runs for the request
\* and nothing is written.
C5_ExactlyOneResponse == [](C5_Responses) /\ [][C5_NoStageAfterResponse]_vars

\* C5 witness: a request rejected by a stage that threw (sanitizeInput) has
\* its one response, the 500 of the error handler, and no later stage ran
C5_Witness ==
  \E r \in Slots :
    /\ Done(r) /\ LastStage(r) = "sanitizeInput"
    /\ Len(resp[r]) = 1 /\ resp[r][1].status = 500
    /\ ~Ran(r, "validators")

\* C6: a draft that violates the rules of several fields is answered with
\* the one 400 response whose validationErrors list holds, in rule order,
\* one entry for every violated rule.
C6_AllViolationsInOneResponse ==
  \A r \in Slots :
    (Done(r) /\ req[r].route = "incomeCreate" /\ Ran(r, "validators")
     /\ \E i, j \in DOMAIN errors[r] : errors[r][i].field # errors[r][j].field)
      => (ValidationFailure(r) /\ errors[r] = Violations(r))

\* C7: a create request that succeeds (201) leaves its record as the only
\* active one of the principal with that amount, date and category: while
\* an active record with the same values exists, income or expense, a
\* second create request with them is rejected and stores nothing.
C7_NoSecondRecord ==
  \A r \in Slots :
    (Done(r) /\ IsCreate(req[r].route) /\ resp[r][1].status = 201)
      => Twins(req[r].user, body[r]) = 1

\* C8: the write of a create request is not preceded by a second look at
\* the store: a request that passed the business rules and the validator
\* stores its record when its handler runs, whatever was written since its
\* checks, so two concurrent requests with identical amount, date and
\* category that both passed duplicate detection are both stored.
C8_WriteWithoutRecheck ==
  [][\A r \in Slots :
       (pc[r] = "createIncome" /\ pc'[r] = "done") =>
         /\ Len(incomes') = Len(incomes) + 1
         /\ incomes'[Len(incomes')] = NewRecord(body[r], req[r].user)
         /\ resp'[r][1].status = 201
    ]_vars

\* C8 witness: two requests of one principal, both answered 201, and two
\* active income records with identical amount, date and category
C8_Witness ==
  \E r, s \in Slots :
    /\ r # s /\ Done(r) /\ Done(s)
    /\ req[r] = req[s] /\ req[r].route = "incomeCreate"
    /\ resp[r][1].status = 201 /\ resp[s][1].status = 201
    /\ Ran(r, "validateDataIntegrity") /\ Ran(s, "validateDataIntegrity")
    /\ Twins(req[r].user, body[r]) = 2

\* a string of the request's body or query matches a dangerous pattern
Injected(r) ==
  checkForInjection(BodyTree(ParsedBody(req[r]))) \/ checkForInjection(req[r].query)

\* C9: a create request that carries a dangerous string in its body (at any
\* depth) or query, and that the content-type and size guards let through,
\* is answered 400 with the generic message, the response echoes nothing of
\* the request, no sanitizer, validator, business rule or handler runs, and
\* nothing is stored.
C9_InjectionRejected ==
  \A r \in Slots :
    (Done(r) /\ IsCreate(req[r].route) /\ Injected(r)
     /\ req[r].ctype = "json" /\ req[r].size = "small")
      => /\ resp[r][1].status = 400
         /\ resp[r][1].message = "Contenido potencialmente peligroso detectado"
         /\ resp[r][1].validationErrors = <<>>
         /\ resp[r][1].details = <<>>
         /\ resp[r][1].data = <<>>
         /\ LastStage(r) = "preventInjection"

\* C10: a draft whose category is outside the set of the route's kind is
\* rejected by the business evaluator on its own, whatever the schema
\* validator found: on a create route of either kind the request does not
\* get past the financial consistency check.
C10_BusinessCategoryCheck ==
  \A r \in Slots :
    (IsCreate(req[r].route) /\ Ran(r, "validateFinancialConsistency")
     /\ body[r].category \notin
          (IF IsIncomeRoute(req[r].route) THEN validIncomeCategories
                                          ELSE validExpenseCategories))
      => (Done(r) /\ LastStage(r) = "validateFinancialConsistency")

\* the handler of a create route ran for the request in slot r
HandlerRan(r) == Ran(r, "createIncome") \/ Ran(r, "createExpense")

HasErrorFor(r, field) == \E i \in DOMAIN errors[r] : errors[r][i].field = field

\* C11: on the income create route a draft with isRecurring = true and no
\* recurringFrequency fails schema validation with an error for the field
\* recurringFrequency and never reaches the handler; a draft whose
\* isRecurring is false or not sent gets no error for recurringFrequency,
\* whether or not the field is present.
C11_RecurrenceRule ==
  \A r \in Slots :
    (req[r].route = "incomeCreate" /\ Ran(r, "validators")) =>
      /\ (req[r].raw.isRecurring = "true" /\ req[r].raw.recurringFrequency = Absent)
           => (HasErrorFor(r, "recurringFrequency") /\ ~HandlerRan(r))
      /\ req[r].raw.isRecurring # "true" => ~HasErrorFor(r, "recurringFrequency")

\* the schema rules on the fields of a draft of a create route (a date or a
\* payment method that is not sent takes the default of the schema)
SchemaRulesHold(route, b) ==
  /\ b.description # Absent
  /\ StrLen(b.description) >= 1 /\ StrLen(b.description) <= DescMaxLen
  /\ IsFloatInRange(b.amount) /\ DecimalDigits(b.amount) <= AmountMaxDecimals
  /\ b.category \in (IF IsIncomeRoute(route) THEN validIncomeCategories
                                              ELSE validExpenseCategories)
  /\ b.date # Absent => (IsDate(b.date) /\ Day(b.date) <= YearDays
                         /\ Day(b.date) >= 0 - YearDays)
  /\ b.paymentMethod # Absent =>
       b.paymentMethod \in (IF IsIncomeRoute(route) THEN incomePaymentMethods
                                                     ELSE expensePaymentMethods)
  /\ Len(b.tags) <= TagsMax
  /\ b.isRecurring = "true" => b.recurringFrequency # Absent

\* C12: every draft that a create handler takes as valid (it runs with no
\* recorded validation error) satisfies all schema rules at once:
\* description length, amount range and precision, category of the kind,
\* date window, payment method, number of tags, and a recurringFrequency
\* when isRecurring is true.
C12_HandlerDraftSatisfiesRules ==
  \A r \in Slots :
    (IsCreate(req[r].route) /\ HandlerRan(r) /\ errors[r] = <<>>)
      => SchemaRulesHold(req[r].route, body[r])

\* the request in slot r was answered by the given stage
RejectedBy(r, stage) == Done(r) /\ LastStage(r) = stage

\* C13: the active-account check answers 403 to a principal with
\* isActive = false (also when the last authentication is too old), 401 to
\* an active principal whose last authentication is more than 90 days old,
\* and lets an active principal pass whose last authentication is at most
\* 90 days old.
C13_ActiveAccountCheck ==
  \A r \in Slots :
    Ran(r, "validateActiveUser") =>
      LET u == users[req[r].user] IN
      /\ ~u.isActive =>
           (RejectedBy(r, "validateActiveUser") /\ resp[r][1].status = 403)
      /\ (u.isActive /\ u.daysSinceLogin > maxInactiveDays) =>
           (RejectedBy(r, "validateActiveUser") /\ resp[r][1].status = 401)
      /\ (u.isActive /\ u.daysSinceLogin <= maxInactiveDays) =>
           ~RejectedBy(r, "validateActiveUser")

\* C13 witness: an active principal whose last authentication is 91 days
\* old is answered 401 by the active-account check
C13_Witness ==
  \E r \in Slots :
    /\ RejectedBy(r, "validateActiveUser")
    /\ users[req[r].user].isActive
    /\ users[req[r].user].daysSinceLogin = maxInactiveDays + 1
    /\ resp[r][1].status = 401

\* the active transactions of principal u, incomes and expenses, dated on
\* the calendar day of d
CountTransactionsOfDay(u, d) ==
  CountIncomesOfDay(u, d)
  + Cardinality({i \in DOMAIN expenses :
                   /\ expenses[i].user = u /\ expenses[i].isActive
                   /\ Day(expenses[i].date) = Day(d)})
  + (IF Day(d) = 0 THEN bulk[u].expenses ELSE 0)

\* the step in which the stage acts on the request in slot r
Checks(r, stage) == pc[r] = stage /\ pc'[r] # stage

\* ... and answers it with the status
Answers(r, status) ==
  /\ pc'[r] = "done" /\ Len(resp'[r]) = Len(resp[r]) + 1
  /\ resp'[r][Len(resp'[r])].status = status

Tier(u) == IF users[u].plan = Absent THEN "free" ELSE users[u].plan

\* C15: the plan-quota check answers 429 when the active incomes and
\* expenses of the principal are at or above the ceiling of the tier,
\* otherwise 400 when the draft has more tags than the tier allows, and
\* never rejects a principal on the unlimited tier.
C15_PlanQuota ==
  [][\A r \in Slots :
       Checks(r, "validateUserPlanLimits") =>
         LET u == req[r].user
             limits == planLimits(Tier(u))
             full == limits.maxTransactions > 0
                     /\ CountActive(u) >= limits.maxTransactions
         IN /\ full => Answers(r, 429)
            /\ (~full /\ limits.maxTags > 0 /\ Len(body[r].tags) > limits.maxTags)
                 => Answers(r, 400)
            /\ Tier(u) = "enterprise" => pc'[r] # "done"]_vars

\* the request in slot r reached the business rules with a principal that
\* the active-account check lets pass, and the volume check did not answer 429
PastAccountAndVolume(r) ==
  /\ req[r].route = "incomeCreate" /\ Ran(r, "validateTransactionLimits")
  /\ ~(RejectedBy(r, "validateTransactionLimits") /\ resp[r][1].status = 429)

\* C16: a create request whose amount exceeds 1,000,000 is answered 400 by
\* the amount ceiling of the business evaluator and stores nothing, although
\* the amount is inside the range of the schema validator; an amount of
\* exactly 1,000,000 is not rejected by the ceiling.
C16_AmountCeiling ==
  \A r \in Slots :
    (Done(r) /\ PastAccountAndVolume(r) /\ body[r].amount # Absent) =>
      /\ AmountAbove(Amount(body[r].amount), maxTransactionAmount) =>
           /\ RejectedBy(r, "validateTransactionLimits")
           /\ resp[r][1].status = 400
      /\ Amount(body[r].amount) = Amount("1000000") =>
           ~(RejectedBy(r, "validateTransactionLimits")
             /\ resp[r][1].message = "Monto excesivo")

\* C17: a create request whose date lies more than 30 days ahead is
\* answered 400 and stores nothing, also when the date is inside the window
\* of the schema validator, and by the horizon check when the request
\* reaches it with a positive amount; a date at most 30 days ahead is not
\* rejected by the horizon check.
C17_FutureDateHorizon ==
  \A r \in Slots :
    (PastAccountAndVolume(r) /\ IsDate(body[r].date)) =>
      /\ (Done(r) /\ Day(body[r].date) > maxFutureDays) => resp[r][1].status = 400
      /\ (Ran(r, "validateFinancialConsistency") /\ Day(body[r].date) > maxFutureDays
          /\ ~AmountNotPositive(Amount(body[r].amount))) =>
           /\ RejectedBy(r, "validateFinancialConsistency")
           /\ resp[r][1].message = "Fecha invalida"
      /\ Day(body[r].date) <= maxFutureDays =>
           ~(RejectedBy(r, "validateFinancialConsistency")
             /\ resp[r][1].message = "Fecha invalida")

\* C17 witness: a date 31 days ahead, inside the validator's window of one
\* year, is answered 400 by the horizon check
C17_Witness ==
  \E r \in Slots :
    /\ RejectedBy(r, "validateFinancialConsistency")
    /\ req[r].raw.date = "in31d" /\ ~HasErrorFor(r, "date")
    /\ resp[r][1].status = 400 /\ resp[r][1].message = "Fecha invalida"

C19_SanitizerIdempotent ==
  \A r \in Slots :
    (req[r].route = "incomeCreate" /\ Ran(r, "sanitizers"))
      => SanitizeChain(body[r]) = body[r]

\* C20: no sanitizer step answers the request or raises an error: a request
\* is never finished by sanitizeInput or by a sanitizer chain.
C20_SanitizerNeverFails ==
  \A r \in Slots :
    /\ ~RejectedBy(r, "sanitizeInput")
    /\ ~RejectedBy(r, "sanitizers")

\* the collection that the route of the request in slot r addresses
StoreOf(r) == IF IsIncomeRoute(req[r].route) THEN incomes ELSE expenses

\* the steps that look a record up by the id of the request
Lookups ==
  {"validateUserAccess", "getIncomeById", "getExpenseById", "updateIncome",
   "updateExpense", "deleteIncome", "deleteExpense"}

\* the well-formed id of the request in slot r names no record, a
\* soft-deleted record, or a record of another principal
NotTheirs(r) ==
  /\ HasId(req[r].route) /\ IsMongoId(req[r].idform)
  /\ \/ req[r].id \notin DOMAIN StoreOf(r)
     \/ ~StoreOf(r)[req[r].id].isActive
     \/ StoreOf(r)[req[r].id].user # req[r].user

\* the step changes the record i of the collection
Changes(store, storeNext, i) == i \in DOMAIN storeNext /\ storeNext[i] # store[i]

C21_NotFound ==
  \A r \in Slots :
    (\E st \in Lookups : Checks(r, st)) /\ NotTheirs(r) =>
      /\ incomes' = incomes /\ expenses' = expenses
      /\ errors[r] = <<>> => Answers(r, 404)

C21_OwnWritesOnly ==
  /\ \A i \in DOMAIN incomes :
       Changes(incomes, incomes', i) =>
         \E r \in Slots : /\ Checks(r, "updateIncome") \/ Checks(r, "deleteIncome")
                          /\ req[r].id = i /\ req[r].user = incomes[i].user
  /\ \A i \in DOMAIN expenses :
       Changes(expenses, expenses', i) =>
         \E r \in Slots : /\ Checks(r, "updateExpense") \/ Checks(r, "deleteExpense")
                          /\ req[r].id = i /\ req[r].user = expenses[i].user

C21_OwnReadsOnly ==
  \A r \in Slots :
    (Done(r) /\ resp[r][1].status = 200
     /\ req[r].route \in {"incomeGet", "expenseGet", "incomeList"}) =>
      \A k \in DOMAIN resp[r][1].data : resp[r][1].data[k].user = req[r].user

\* C21: a get, update or delete request whose well-formed id names no
\* record, a soft-deleted record or a record of another principal changes no
\* stored record and, its body being valid, is answered 404; a record is
\* changed only by an update or delete of its owner, and a get or list
\* answers only with records of the requesting principal.
C21_OwnershipIsolation ==
  /\ [][C21_NotFound /\ C21_OwnWritesOnly]_vars
  /\ []C21_OwnReadsOnly

\* C21 witness: a request for an active record of another principal has
\* been answered 404
C21_Witness ==
  \E r \in Slots :
    /\ Done(r) /\ HasId(req[r].route) /\ IsMongoId(req[r].idform)
    /\ req[r].id \in DOMAIN StoreOf(r)
    /\ StoreOf(r)[req[r].id].isActive
    /\ StoreOf(r)[req[r].id].user # req[r].user
    /\ resp[r][1].status = 404

\* the gates of the protected routes
Gates == {"authenticateToken", "protectRoute", "protectAdminRoute"}

\* C22: a request to a protected route that carries no token, a malformed
\* token or an expired token is answered 401, and nothing but the gate of
\* the route has run for it.
C22_AuthenticationGate ==
  \A r \in Slots :
    (pc[r] # "idle" /\ req[r].token # "valid") =>
      /\ \A i \in DOMAIN trace[r] : trace[r][i] \in Gates
      /\ Done(r) => resp[r][1].status = 401

\* C23: a create-income request with amount 100, category salario and a
\* description longer than 200 characters, which the active-account and
\* volume checks let pass, is answered 400 with a validationErrors entry for
\* the field description.
C23_DescriptionTooLong ==
  \A r \in Slots :
    (Done(r) /\ PastAccountAndVolume(r)
     /\ req[r].raw.amount = "100" /\ req[r].raw.category = "salario"
     /\ StrLen(req[r].raw.description) > DescMaxLen) =>
      /\ resp[r][1].status = 400
      /\ \E i \in DOMAIN resp[r][1].validationErrors :
           resp[r][1].validationErrors[i].field = "description"

\* C24: a list request of an active principal whose page is below 1 or
\* whose limit is above 100 is answered 400, and the list handler does not
\* run for it.
C24_ListQueryValidation ==
  \A r \in Slots :
    (req[r].route = "incomeList" /\ Ran(r, "validateActiveUser")
     /\ ~RejectedBy(r, "validateActiveUser")
     /\ \/ (~IsNaN(req[r].page) /\ ParseInt(req[r].page) < 1)
        \/ (~IsNaN(req[r].limit) /\ ParseInt(req[r].limit) > LimitMax)) =>
      /\ ~Ran(r, "getIncomes")
      /\ Done(r) => resp[r][1].status = 400

\* C25: a get-income-by-id request that passed the gate is answered 400
\* when its id is malformed, and 404 when its id is well-formed and names no
\* active record of the principal.
C25_IdValidation ==
  \A r \in Slots :
    (Done(r) /\ req[r].route = "incomeGet" /\ Ran(r, "paramValidations")) =>
      /\ ~IsMongoId(req[r].idform) => resp[r][1].status = 400
      /\ NotTheirs(r) => resp[r][1].status = 404

\* the handlers that write a transaction
WriteHandlers == Handlers \cup {"deleteIncome", "deleteExpense"}

\* the statuses of an accepted request
Accepted == {200, 201}

C26_Frame ==
  /\ users' = users /\ bulk' = bulk
  /\ (incomes' # incomes \/ expenses' # expenses) =>
       \E r \in Slots, h \in WriteHandlers :
         /\ Checks(r, h) /\ errors[r] = <<>>
         /\ \E status \in Accepted : Answers(r, status)
  /\ \A r \in Slots :
       (pc[r] # "done" /\ pc'[r] = "done"
        /\ resp'[r][Len(resp'[r])].status \notin Accepted) =>
         incomes' = incomes /\ expenses' = expenses

\* C26: no step changes a user record; a step that changes the income or
\* the expense store is the handler step of a request without validation
\* errors that is answered 200 or 201; the step that rejects a request
\* leaves both stores unchanged.
C26_FrameCondition == [][C26_Frame]_vars

\* C26 witness: a request has been rejected behind its first stage while a
\* transaction written by an accepted request is stored
C26_Witness ==
  \E r \in Slots :
    /\ Done(r) /\ resp[r][1].status \notin Accepted /\ Len(trace[r]) > 1
    /\ Len(incomes) + Len(expenses) > 0

\* two active documents of one principal with the same amount, date and
\* category in the collection
HoldsDuplicates(store) ==
  \E i, j \in DOMAIN store :
    /\ i < j /\ store[i].isActive /\ store[j].isActive
    /\ store[i].user = store[j].user
    /\ store[i].amount = store[j].amount
    /\ store[i].date = store[j].date
    /\ store[i].category = store[j].category

\* C27: with requests served one at a time, neither store ever holds two
\* active transactions of the same principal with identical amount, date
\* and category.
C27_NoDuplicatesStored == ~HoldsDuplicates(incomes) /\ ~HoldsDuplicates(expenses)

C28_OwnerKept ==
  /\ \A i \in DOMAIN incomes : incomes'[i].user = incomes[i].user
  /\ \A i \in DOMAIN expenses : expenses'[i].user = expenses[i].user
  /\ \A r \in Slots :
       /\ (Checks(r, "createIncome") /\ Len(incomes') > Len(incomes)) =>
            incomes'[Len(incomes')].user = req[r].user
       /\ (Checks(r, "createExpense") /\ Len(expenses') > Len(expenses)) =>
            expenses'[Len(expenses')].user = req[r].user

\* C28: a transaction is stored with the authenticated principal of the
\* creating request as its owner, and no step changes the owner of a stored
\* transaction, whatever fields the body of an update carries.
C28_OwnershipFixed == [][C28_OwnerKept]_vars

\* the active transactions of principal u, in both collections
ActiveTransactions(u) ==
  bulk[u].incomes + bulk[u].expenses
  + Cardinality({i \in DOMAIN incomes : incomes[i].isActive /\ incomes[i].user = u})
  + Cardinality({i \in DOMAIN expenses : expenses[i].isActive /\ expenses[i].user = u})

\* a soft-deleted document stays in the collection as it is
StaysDeleted(store, storeNext) ==
  \A i \in DOMAIN store :
    /\ i \in DOMAIN storeNext
    /\ ~store[i].isActive => storeNext[i] = store[i]

C29_Step ==
  /\ StaysDeleted(incomes, incomes') /\ StaysDeleted(expenses, expenses')
  /\ \A r \in Slots :
       /\ (Checks(r, "deleteIncome") /\ Answers(r, 200)) =>
            /\ incomes[req[r].id].isActive /\ ~incomes'[req[r].id].isActive
            /\ Len(incomes') = Len(incomes)
       /\ (Checks(r, "deleteExpense") /\ Answers(r, 200)) =>
            /\ expenses[req[r].id].isActive /\ ~expenses'[req[r].id].isActive
            /\ Len(expenses') = Len(expenses)
       /\ (Checks(r, "validateDataIntegrity") /\ Twins(req[r].user, body[r]) = 0) =>
            ~Answers(r, 409)
       /\ (Checks(r, "validateUserPlanLimits")
           /\ ActiveTransactions(req[r].user)
                < planLimits(UserPlan(req[r].user)).maxTransactions) =>
            ~Answers(r, 429)

\* C29: a delete marks the record inactive and keeps it stored; a stored
\* inactive record is never changed or made active again; duplicate
\* detection answers 409 only when an active record carries the draft's
\* amount, date and category, and the plan quota answers 429 only when the
\* active transactions of the principal reach the quota, so soft-deleted
\* records count for neither.
C29_SoftDelete == [][C29_Step]_vars

\* C29 witness: a create-income request has been answered 201 while a
\* soft-deleted income of the principal with the same amount, date and
\* category is stored
C29_Witness ==
  \E r \in Slots :
    /\ Done(r) /\ req[r].route = "incomeCreate" /\ resp[r][1].status = 201
    /\ \E i \in DOMAIN incomes :
         /\ ~incomes[i].isActive /\ incomes[i].user = req[r].user
         /\ incomes[i].amount = Amount(body[r].amount)
         /\ incomes[i].date = Instant(body[r].date)
         /\ incomes[i].category = body[r].category

\* the active incomes of principal u dated on the calendar day of d
ActiveIncomesOfDay(u, d) ==
  LET sameDay == {i \in DOMAIN incomes :
                    incomes[i].user = u /\ Day(incomes[i].date) = Day(d)}
      deleted == {i \in sameDay : ~incomes[i].isActive}
  IN Cardinality(sameDay) - Cardinality(deleted)
     + (IF Day(d) = 0 THEN bulk[u].incomes ELSE 0)

====
